---- MODULE Spec2Model ----
(***************************************************************************)
(* The ingestion pipeline of ddosia-tracker: the Fetcher                   *)
(* (src/src/downloader.py, src/src/main.py) and the Ingestor               *)
(* (src/src/processor.py) working over the pending/processed staging       *)
(* directories and the relational store.                                   *)
(*                                                                         *)
(* Strings (file names, urls, hostnames) are sequences of one-character    *)
(* strings, so that suffix tests, lowercasing, sorting and globbing are    *)
(* computed the way the code computes them.                                *)
(***************************************************************************)
EXTENDS Integers, Sequences, FiniteSets, TLC

\* ------------------------------------------------------------------ bounds

\* Number of 64 KiB chunks a resource body is streamed in.
NumChunks == 2
\* Upper bound on the value of the store's clock / files id sequence.
MaxClock == 2
\* Upper bound on crashes and injected failures in the budgeted specifications.
MaxFaults == 2

\* ------------------------------------------------------------- characters

\* Python values: None, True and False are one-element tuples holding a word;
\* a str is the tuple of its characters, so every value compares with every other.
None == << "None" >>
True == << "True" >>
False == << "False" >>

Alphabet ==
  << " ", "-", ".", "/", "0", "1", "2", "3", "4", "5", "6", "7", "8", "9", ":",
     "A", "B", "C", "D", "E", "F", "G", "H", "I", "J", "K", "L", "M",
     "N", "O", "P", "Q", "R", "S", "T", "U", "V", "W", "X", "Y", "Z", "_",
     "a", "b", "c", "d", "e", "f", "g", "h", "i", "j", "k", "l", "m",
     "n", "o", "p", "q", "r", "s", "t", "u", "v", "w", "x", "y", "z" >>

\* The position of each character in the alphabet.
OrdTable ==
  [ c \in { Alphabet[i] : i \in 1..Len(Alphabet) } |->
      CHOOSE i \in 1..Len(Alphabet) : Alphabet[i] = c ]

\* ord(c), up to the order-preserving renumbering of the alphabet.
Ord(c) == OrdTable[c]

UpperCase == { Alphabet[i] : i \in 16..41 }

\* str.lower() on one character: 'A'..'Z' sit 27 places below 'a'..'z' here.
LowerChar(c) == IF c \in UpperCase THEN Alphabet[Ord(c) + 27] ELSE c

Lower(s) == [i \in 1..Len(s) |-> LowerChar(s[i])]

EndsWith(s, suf) ==
  /\ Len(s) >= Len(suf)
  /\ SubSeq(s, Len(s) - Len(suf) + 1, Len(s)) = suf

StartsWith(s, pre) ==
  /\ Len(s) >= Len(pre)
  /\ SubSeq(s, 1, Len(pre)) = pre

\* Python's order on str: lexicographic by code point, a proper prefix first.
RECURSIVE StrLess(_, _)
StrLess(s, t) ==
  IF t = << >> THEN FALSE
  ELSE IF s = << >> THEN TRUE
  ELSE IF Ord(Head(s)) # Ord(Head(t)) THEN Ord(Head(s)) < Ord(Head(t))
  ELSE StrLess(Tail(s), Tail(t))

\* sorted(S) for a set of strings.
RECURSIVE Sorted(_)
Sorted(S) ==
  IF S = {} THEN << >>
  ELSE LET m == CHOOSE x \in S : \A y \in S \ {x} : StrLess(x, y)
       IN  << m >> \o Sorted(S \ {m})

\* Path(p).name: what follows the last '/'.
RECURSIVE BaseName(_)
BaseName(p) ==
  IF \E i \in 1..Len(p) : p[i] = "/"
    THEN BaseName(SubSeq(p, (CHOOSE i \in 1..Len(p) : p[i] = "/") + 1, Len(p)))
    ELSE p

DotJson == << ".", "j", "s", "o", "n" >>
DotPart == << ".", "p", "a", "r", "t" >>
LastJson == << "l", "a", "s", "t" >> \o DotJson

\* ------------------------------------------------------------ json values

\* d.get(k): the value under k, None when the key is absent.
Get(e, k) == IF k \in DOMAIN e THEN e[k] ELSE None

\* The JSON numbers 0 and 1: one-element tuples holding a word, like None.
IntZero == << "int:0" >>
IntOne == << "int:1" >>

\* Python truthiness of a value.
Truthy(v) == v \notin { None, False, << >>, IntZero }

\* OptBool without the test for None: bool(v).
OptBool_Coerce(v) == IF Truthy(v) THEN True ELSE False

\* bool(v) if v is not None else None
OptBool(v) == IF v # None THEN (IF Truthy(v) THEN True ELSE False) ELSE None

\* ------------------------------------------------- processor.py: helpers

Digits == { Alphabet[i] : i \in 5..14 }

DigitVal(c) == Ord(c) - 5

RECURSIVE Num(_)
Num(s) == IF s = << >> THEN 0 ELSE 10 * Num(SubSeq(s, 1, Len(s) - 1)) + DigitVal(s[Len(s)])

\* The two alternatives of TS_RE, "d" standing for \d.
ShapeDMY ==
  << "d", "d", "-", "d", "d", "-", "d", "d", "d", "d", "_",
     "d", "d", "-", "d", "d", "-", "d", "d" >>
ShapeYMD ==
  << "d", "d", "d", "d", "-", "d", "d", "-", "d", "d", "_",
     "d", "d", "-", "d", "d", "-", "d", "d" >>

\* re.match of one alternative at the start of s.
MatchesShape(s, shape) ==
  /\ Len(s) >= Len(shape)
  /\ \A i \in 1..Len(shape) :
        IF shape[i] = "d" THEN s[i] \in Digits ELSE s[i] = shape[i]

IsLeap(y) == (y % 4 = 0 /\ y % 100 # 0) \/ y % 400 = 0

DaysInMonth(y, m) ==
  IF m = 2 THEN (IF IsLeap(y) THEN 29 ELSE 28)
  ELSE IF m \in {4, 6, 9, 11} THEN 30 ELSE 31

\* What datetime.strptime accepts for the fields of a token.
ValidDateTime(y, mo, d, h, mi, sec) ==
  /\ y >= 1
  /\ mo \in 1..12
  /\ d >= 1 /\ d <= DaysInMonth(y, mo)
  /\ h \in 0..23
  /\ mi \in 0..59
  /\ sec \in 0..59

\* StrptimeDMY reading the token as "%m-%d-%Y_%H-%M-%S".
StrptimeDMY_MonthFirst(ts) ==
  IF /\ Len(ts) = 19
     /\ MatchesShape(ts, ShapeDMY)
     /\ ValidDateTime(Num(SubSeq(ts, 7, 10)), Num(SubSeq(ts, 1, 2)), Num(SubSeq(ts, 4, 5)),
                      Num(SubSeq(ts, 12, 13)), Num(SubSeq(ts, 15, 16)), Num(SubSeq(ts, 18, 19)))
    THEN SubSeq(ts, 7, 10) \o << "-" >> \o SubSeq(ts, 1, 2) \o << "-" >> \o SubSeq(ts, 4, 5)
           \o SubSeq(ts, 11, 19)
    ELSE None

\* datetime.strptime(ts, "%d-%m-%Y_%H-%M-%S"): the instant as YYYY-MM-DD_HH-MM-SS,
\* None for a ValueError.
StrptimeDMY(ts) ==
  IF /\ Len(ts) = 19
     /\ MatchesShape(ts, ShapeDMY)
     /\ ValidDateTime(Num(SubSeq(ts, 7, 10)), Num(SubSeq(ts, 4, 5)), Num(SubSeq(ts, 1, 2)),
                      Num(SubSeq(ts, 12, 13)), Num(SubSeq(ts, 15, 16)), Num(SubSeq(ts, 18, 19)))
    THEN SubSeq(ts, 7, 10) \o << "-" >> \o SubSeq(ts, 4, 5) \o << "-" >> \o SubSeq(ts, 1, 2)
           \o SubSeq(ts, 11, 19)
    ELSE None

\* datetime.strptime(ts, "%Y-%m-%d_%H-%M-%S")
StrptimeYMD(ts) ==
  IF /\ Len(ts) = 19
     /\ MatchesShape(ts, ShapeYMD)
     /\ ValidDateTime(Num(SubSeq(ts, 1, 4)), Num(SubSeq(ts, 6, 7)), Num(SubSeq(ts, 9, 10)),
                      Num(SubSeq(ts, 12, 13)), Num(SubSeq(ts, 15, 16)), Num(SubSeq(ts, 18, 19)))
    THEN ts
    ELSE None

parse_timestamp_from_filename(name) ==
  IF ~(MatchesShape(name, ShapeDMY) \/ MatchesShape(name, ShapeYMD)) THEN None
  ELSE LET ts == SubSeq(name, 1, 19)
       IN  IF StrptimeDMY(ts) # None THEN StrptimeDMY(ts)
           ELSE IF StrptimeYMD(ts) # None THEN StrptimeYMD(ts)
           ELSE None

\* str.strip() for the whitespace of the alphabet.
RECURSIVE Strip(_)
Strip(s) ==
  IF s = << >> THEN s
  ELSE IF Head(s) = " " THEN Strip(Tail(s))
  ELSE IF s[Len(s)] = " " THEN Strip(SubSeq(s, 1, Len(s) - 1))
  ELSE s

Www == << "w", "w", "w", "." >>

\* normalize_hostname testing for the 'www.' prefix before lowercasing.
normalize_hostname_PrefixFirst(hostname) ==
  IF ~Truthy(hostname) THEN None
  ELSE LET normalized == Strip(hostname)
       IN  IF normalized = << >> THEN None
           ELSE LET stripped == IF StartsWith(normalized, Www)
                                  THEN SubSeq(normalized, 5, Len(normalized))
                                  ELSE normalized
                IN  IF stripped # << >> THEN Lower(stripped) ELSE None

normalize_hostname(hostname) ==
  IF ~Truthy(hostname) THEN None
  ELSE LET normalized == Lower(Strip(hostname))
       IN  IF normalized = << >> THEN None
           ELSE LET stripped == IF StartsWith(normalized, Www)
                                  THEN SubSeq(normalized, 5, Len(normalized))
                                  ELSE normalized
                IN  IF stripped # << >> THEN stripped ELSE None

\* ------------------------------------------------------ the remote source

\* base_url after rstrip('/') + '/'
BaseUrl == << "h", ":", "/", "/", "s", "/" >>

NameA == << "a" >> \o DotJson
NameB == << "b" >> \o DotJson

\* The timestamped resources the source publishes.
Names == { NameA, NameB }

\* The hrefs of the anchors of the directory listing, in page order.
Listing == << << ".", ".", "/" >>, NameB, NameA, LastJson, NameA >>

\* Documents a resource body can hold: T has targets and randoms, R has randoms
\* only, X is not valid JSON, M is valid JSON whose arrays hold, beside
\* well-formed entries, entries that miss fields and an entry that is a string.
Docs == { "T", "R", "X", "M" }

HostA == << "a", ".", "c", "o", "m" >>
HostWwwA == << "W", "W", "W", ".", "A", ".", "c", "o", "m" >>

\* An array entry that is a JSON string, not an object: the record of the one
\* field py_str, a key no object of these documents has.
JsonString(chars) == [ py_str |-> chars ]

\* isinstance(e, dict)
IsObject(e) == "py_str" \notin DOMAIN e

HostB == << "b", ".", "o", "r", "g" >>

DocData(d) ==
  IF d = "M"
    THEN [ targets |->
             << [ host |-> HostB, target_id |-> << "t", "3" >> ],
                [ target_id |-> << "t", "4" >> ],
                JsonString(<< "j", "u", "n", "k" >>) >>,
           randoms |->
             << [ name |-> << "r", "3" >>, id |-> << "i", "3" >> ],
                [ id |-> << "i", "4" >> ] >> ]
  ELSE IF d = "T"
    THEN [ targets |->
             << [ host |-> HostA, target_id |-> << "t", "1" >>, use_ssl |-> True ],
                [ host |-> HostWwwA, target_id |-> << "t", "2" >>, ip |-> << >> ] >>,
           randoms |->
             << [ name |-> << "r", "1" >>, id |-> << "i", "1" >>, digit |-> False ] >> ]
    ELSE [ randoms |->
             << [ name |-> << "r", "2" >>, id |-> << "i", "2" >>, upper |-> True ] >> ]

\* The body of document d as the chunks iter_content yields.
Body(d) == [ i \in 1..NumChunks |-> << d, i >> ]

\* A run of zero bytes one chunk long (a hole left by a write past the end).
ZeroChunk == << "zero", 0 >>

\* json.load succeeds on exactly the complete bodies of the valid documents.
Parses(content) == \E d \in Docs \ { "X" } : content = Body(d)

JsonLoad(content) == DocData((CHOOSE d \in Docs \ { "X" } : content = Body(d)))

\* ------------------------------------------------------------------ state

\* The Fetcher replicas that may run against the staging area.
Fetchers == { 1, 2 }

\* Entries the processed directory can hold.
FileNames == Names \cup { LastJson }

\* TmpName without the partial marker: the body is written to the final name.
TmpName_NoMarker(n) == n

\* pending_dest.with_suffix(pending_dest.suffix + ".part")
TmpName(n) == n \o DotPart

\* Entries the pending directory can hold: final names and temp names.
PendNames == FileNames \cup { TmpName(n) : n \in Names }

\* Files (inodes); 0 stands for "no file".
Inodes == 1..(Cardinality(PendNames) + Cardinality(FileNames) + Cardinality(Fetchers))

VARIABLES
  remote,     \* the document each resource of the source serves
  ino,        \* the content of each file, a sequence of chunks
  pending,    \* directory pending: entry name -> file
  processed,  \* directory processed: entry name -> file
  downloads,  \* names present in the legacy download directory
  fpc,        \* per Fetcher: its place in check_for_json / _download_file
  fq,         \* per Fetcher: the urls of this cycle not yet finished, sorted
  ffd,        \* per Fetcher: the temp file it has open for writing
  foff,       \* per Fetcher: the chunks it has written through that handle
  ipc,        \* the Ingestor's place in main_loop / process_file
  iq,         \* the files of the current scan not yet finished, sorted
  conn,       \* the state of the Ingestor's connection
  db,         \* the committed content of the store
  work,       \* the store as the open transaction sees it
  clock,      \* the store's clock (clock.now) and files id sequence (clock.seq)
  faults,     \* crashes and failures so far (negative: not counted)
  log,        \* the last line the Ingestor logged about a file in this scan
  hist,       \* history: per file, committed ingestions and kills before commit
  call        \* a function applied on its own: its name, arguments and result

fsVars == << ino, pending, processed, downloads >>
fVars == << fpc, fq, ffd, foff >>
iVars == << ipc, iq, conn, db, work, clock, log, hist >>
envVars == << remote, call >>
vars == << envVars, fsVars, fVars, iVars, faults >>

\* No function is applied on its own while the pipeline runs.
NoCall == [ fn |-> "none", arg |-> << >>, out |-> << >> ]

\* ------------------------------------------------------------- filesystem

Exists(dir, n) == dir[n] # 0

Refs(pend, proc, fds) ==
  ({ pend[n] : n \in DOMAIN pend } \cup { proc[n] : n \in DOMAIN proc }
     \cup { fds[w] : w \in DOMAIN fds }) \ { 0 }

\* The lowest file number not in use.
FreeInode ==
  CHOOSE i \in Inodes :
    /\ i \notin Refs(pending, processed, ffd)
    /\ \A j \in Inodes : j \notin Refs(pending, processed, ffd) => i <= j

\* The filesystem after a step: a file no directory entry and no open handle
\* refers to is gone.
SetFs(content, pend, proc, fds) ==
  /\ pending' = pend
  /\ processed' = proc
  /\ ffd' = fds
  /\ ino' = [ i \in Inodes |-> IF i \in Refs(pend, proc, fds) THEN content[i] ELSE << >> ]

\* write(chunk) through a handle at offset off (in chunks): a write past the end
\* of the file leaves a hole of zeros.
WriteAt(content, off, chunk) ==
  [ i \in 1..(IF Len(content) > off + 1 THEN Len(content) ELSE off + 1) |->
      IF i = off + 1 THEN chunk
      ELSE IF i <= Len(content) THEN content[i]
      ELSE ZeroChunk ]

\* A failure or crash may happen: always when faults are not counted, else
\* while the budget lasts.
FaultAllowed == faults < MaxFaults
Charge == IF faults < 0 THEN faults ELSE faults + 1

\* ------------------------------------------- downloader.py: check_for_json

Letters == { Alphabet[i] : i \in (16..41) \cup (43..68) }
SchemeChars == Letters \cup Digits \cup { "-", "." }

\* Index of the first c in s, 0 when there is none (str.find, 1-based).
Find(s, c) ==
  IF \E i \in 1..Len(s) : s[i] = c
    THEN CHOOSE i \in 1..Len(s) : s[i] = c /\ \A j \in 1..(i - 1) : s[j] # c
    ELSE 0

\* urlparse(href).scheme is not empty
HasScheme(href) ==
  LET i == Find(href, ":")
  IN  /\ i > 1
      /\ href[1] \in Letters
      /\ \A j \in 1..(i - 1) : href[j] \in SchemeChars

\* urlparse(href).netloc is not empty
HasNetloc(href) ==
  LET rest == IF HasScheme(href) THEN SubSeq(href, Find(href, ":") + 1, Len(href)) ELSE href
  IN  /\ StartsWith(rest, << "/", "/" >>)
      /\ Len(rest) > 2
      /\ rest[3] # "/"

\* urljoin(base_url, href) for a relative href without dot segments.
UrlJoin(base, href) ==
  IF StartsWith(href, << "/" >>)
    THEN SubSeq(base, 1, Find(base, ":") + 2)
           \o SubSeq(SubSeq(base, Find(base, ":") + 3, Len(base)), 1,
                     Find(SubSeq(base, Find(base, ":") + 3, Len(base)), "/") - 1)
           \o href
    ELSE base \o href

\* JsonHrefs without the last.json test of the loop: every href ending in
\* .json is collected.
JsonHrefs_KeepLast(links) ==
  LET kept == SelectSeq(links, LAMBDA href :
                 href \notin { << ".", ".", "/" >>, << >> } /\ EndsWith(Lower(href), DotJson))
  IN  [ i \in 1..Len(kept) |->
          IF HasScheme(kept[i]) \/ HasNetloc(kept[i]) THEN kept[i] ELSE UrlJoin(BaseUrl, kept[i]) ]

\* The loop over the anchors: the urls collected in json_hrefs.
RECURSIVE JsonHrefs(_)
JsonHrefs(links) ==
  IF links = << >> THEN << >>
  ELSE LET href == Head(links)
           rest == JsonHrefs(Tail(links))
       IN  IF href \in { << ".", ".", "/" >>, << >> } \/ EndsWith(Lower(href), LastJson)
             THEN rest
           ELSE IF ~EndsWith(Lower(href), DotJson) THEN rest
           ELSE IF HasScheme(href) \/ HasNetloc(href) THEN << href >> \o rest
           ELSE << UrlJoin(BaseUrl, href) >> \o rest

Range(q) == { q[i] : i \in 1..Len(q) }

\* Candidates without sorted(set(...)): the urls in page order.
Candidates_PageOrder(links) == JsonHrefs(links)

\* sorted(set(json_hrefs))
Candidates(links) == Sorted(Range(JsonHrefs(links)))

\* The candidate urls of the listing the source serves.
ListedCandidates == Candidates(Listing)

\* Path(urlparse(file_url).path).name
FileNameOf(url) == BaseName(url)

\* The resource body the source serves at url.
Served(url) == Body(remote[FileNameOf(url)])

\* ------------------------------------------ downloader.py: _download_file

\* The url Fetcher w is working on and its locations in the staging area.
CurUrl(w) == Head(fq[w])
CurName(w) == FileNameOf(CurUrl(w))
CurTmp(w) == TmpName(CurName(w))

\* _download_file returns: check_for_json goes on with the next url, and after
\* the last one main() sleeps until the next cycle.
FReturn(w) ==
  /\ fq' = [fq EXCEPT ![w] = Tail(@)]
  /\ fpc' = [fpc EXCEPT ![w] = IF Tail(fq[w]) = << >> THEN "idle" ELSE "start"]

FGoto(w, pc) == fpc' = [fpc EXCEPT ![w] = pc] /\ UNCHANGED fq

\* check_for_json: the listing is fetched and the candidates are collected.
FListing(w) ==
  /\ fpc[w] = "idle"
  /\ fq' = [fq EXCEPT ![w] = ListedCandidates]
  /\ fpc' = [fpc EXCEPT ![w] = IF ListedCandidates = << >> THEN "idle" ELSE "start"]
  /\ UNCHANGED << envVars, fsVars, ffd, foff, iVars, faults >>

\* FListingFail without the return of the except branch: the cycle goes on
\* with the candidates of the listing.
FListingFail_Proceed(w) ==
  /\ fpc[w] = "idle"
  /\ FaultAllowed
  /\ faults' = Charge
  /\ fq' = [fq EXCEPT ![w] = ListedCandidates]
  /\ fpc' = [fpc EXCEPT ![w] = IF ListedCandidates = << >> THEN "idle" ELSE "start"]
  /\ UNCHANGED << envVars, fsVars, ffd, foff, iVars >>

\* check_for_json: fetching the listing fails, the cycle ends.
FListingFail(w) ==
  /\ fpc[w] = "idle"
  /\ FaultAllowed
  /\ faults' = Charge
  /\ UNCHANGED << envVars, fsVars, fVars, iVars >>

\* The defensive last.json skip and processed_dest.exists().
FCheckProcessed(w) ==
  /\ fpc[w] = "start"
  /\ IF Lower(CurName(w)) = LastJson \/ Exists(processed, CurName(w))
       THEN FReturn(w)
       ELSE FGoto(w, "chk_pending")
  /\ UNCHANGED << envVars, fsVars, ffd, foff, iVars, faults >>

\* pending_dest.exists() and downloads_dest.exists()
FCheckPending(w) ==
  /\ fpc[w] = "chk_pending"
  /\ IF Exists(pending, CurName(w)) \/ CurName(w) \in downloads
       THEN FReturn(w)
       ELSE FGoto(w, "chk_tmp")
  /\ UNCHANGED << envVars, fsVars, ffd, foff, iVars, faults >>

\* tmp.exists(): a temp file is taken as another worker being active.
FCheckTmp(w) ==
  /\ fpc[w] = "chk_tmp"
  /\ IF Exists(pending, CurTmp(w))
       THEN FReturn(w)
       ELSE FGoto(w, "get")
  /\ UNCHANGED << envVars, fsVars, ffd, foff, iVars, faults >>

\* session.get(file_url, stream=True) and raise_for_status() succeed.
FGet(w) ==
  /\ fpc[w] = "get"
  /\ FGoto(w, "open")
  /\ UNCHANGED << envVars, fsVars, ffd, foff, iVars, faults >>

\* open(tmp, "wb"): creates the temp file, or truncates the one that is there.
FOpen(w) ==
  /\ fpc[w] = "open"
  /\ LET f == IF Exists(pending, CurTmp(w)) THEN pending[CurTmp(w)] ELSE FreeInode
     IN  SetFs([ino EXCEPT ![f] = << >>],
               [pending EXCEPT ![CurTmp(w)] = f],
               processed,
               [ffd EXCEPT ![w] = f])
  /\ foff' = [foff EXCEPT ![w] = 0]
  /\ FGoto(w, "write")
  /\ UNCHANGED << envVars, downloads, iVars, faults >>

\* fh.write(chunk) for the next chunk of the body.
FWrite(w) ==
  /\ fpc[w] = "write"
  /\ foff[w] < Len(Served(CurUrl(w)))
  /\ SetFs([ino EXCEPT ![ffd[w]] = WriteAt(@, foff[w], Served(CurUrl(w))[foff[w] + 1])],
           pending, processed, ffd)
  /\ foff' = [foff EXCEPT ![w] = @ + 1]
  /\ UNCHANGED << envVars, downloads, fpc, fq, iVars, faults >>

\* The body is exhausted: the handle and the response are closed.
FClose(w) ==
  /\ fpc[w] = "write"
  /\ foff[w] = Len(Served(CurUrl(w)))
  /\ SetFs(ino, pending, processed, [ffd EXCEPT ![w] = 0])
  /\ foff' = [foff EXCEPT ![w] = 0]
  /\ FGoto(w, "rename")
  /\ UNCHANGED << envVars, downloads, iVars, faults >>

\* tmp.replace(pending_dest): an atomic rename over whatever holds the final
\* name; FileNotFoundError when the temp name is gone.
FRename(w) ==
  /\ fpc[w] = "rename"
  /\ IF Exists(pending, CurTmp(w))
       THEN /\ SetFs(ino,
                     [pending EXCEPT ![CurName(w)] = pending[CurTmp(w)], ![CurTmp(w)] = 0],
                     processed, ffd)
            /\ FReturn(w)
       ELSE /\ UNCHANGED << ino, pending, processed, ffd >>
            /\ FGoto(w, "cleanup")
  /\ UNCHANGED << envVars, downloads, foff, iVars, faults >>

\* The request, the open or a write raises: the handle is closed and one of
\* the except branches runs.
FFail(w) ==
  /\ fpc[w] \in { "get", "open", "write" }
  /\ FaultAllowed
  /\ faults' = Charge
  /\ SetFs(ino, pending, processed, [ffd EXCEPT ![w] = 0])
  /\ foff' = [foff EXCEPT ![w] = 0]
  /\ FGoto(w, "cleanup")
  /\ UNCHANGED << envVars, downloads, iVars >>

\* FCleanupCheck without the removal: the except branch logs and returns.
FCleanupCheck_NoRemove(w) ==
  /\ fpc[w] = "cleanup"
  /\ FReturn(w)
  /\ UNCHANGED << envVars, fsVars, ffd, foff, iVars, faults >>

\* except: if tmp.exists()
FCleanupCheck(w) ==
  /\ fpc[w] = "cleanup"
  /\ IF Exists(pending, CurTmp(w))
       THEN FGoto(w, "unlink")
       ELSE FReturn(w)
  /\ UNCHANGED << envVars, fsVars, ffd, foff, iVars, faults >>

\* FUnlink without the unlink: the except branch only logs.
FUnlink_Keep(w) ==
  /\ fpc[w] = "unlink"
  /\ FReturn(w)
  /\ UNCHANGED << envVars, fsVars, ffd, foff, iVars, faults >>

\* except: tmp.unlink(), whose own failure is swallowed.
FUnlink(w) ==
  /\ fpc[w] = "unlink"
  /\ SetFs(ino, [pending EXCEPT ![CurTmp(w)] = 0], processed, ffd)
  /\ FReturn(w)
  /\ UNCHANGED << envVars, downloads, foff, iVars, faults >>

\* The Fetcher process is killed and started again: its handle is closed, its
\* cycle is lost, the staging area stays as it is.
FCrash(w) ==
  /\ fpc[w] # "idle"
  /\ FaultAllowed
  /\ faults' = Charge
  /\ SetFs(ino, pending, processed, [ffd EXCEPT ![w] = 0])
  /\ foff' = [foff EXCEPT ![w] = 0]
  /\ fq' = [fq EXCEPT ![w] = << >>]
  /\ fpc' = [fpc EXCEPT ![w] = "idle"]
  /\ UNCHANGED << envVars, downloads, iVars >>

Fetcher(w) ==
  \/ FListing(w)
  \/ FListingFail(w)
  \/ FCheckProcessed(w)
  \/ FCheckPending(w)
  \/ FCheckTmp(w)
  \/ FGet(w)
  \/ FOpen(w)
  \/ FWrite(w)
  \/ FClose(w)
  \/ FRename(w)
  \/ FFail(w)
  \/ FCleanupCheck(w)
  \/ FUnlink(w)

\* ---------------------------------------------------------------- the store

EmptyStore == [ files |-> { }, targets |-> << >>, randoms |-> << >> ]

\* The files row of a filename, in a store that has one.
FileRow(store, filename) == CHOOSE r \in store.files : r.filename = filename

HasFileRow(store, filename) == \E r \in store.files : r.filename = filename

\* INSERT INTO files ... ON CONFLICT (filename) DO UPDATE ...: sha256, size_bytes
\* and processed_at are replaced, fetched_at is COALESCE(files.fetched_at,
\* EXCLUDED.fetched_at), a new row takes id from the sequence.
UpsertFile_Overwrite(store, filename, ts, file_sha, size, now, newid) ==
  IF HasFileRow(store, filename)
    THEN LET old == FileRow(store, filename)
         IN  [ store EXCEPT !.files = (@ \ { old }) \cup
                 { [ old EXCEPT !.sha256 = file_sha,
                                !.size_bytes = size,
                                !.fetched_at = ts,
                                !.processed_at = now ] } ]
    ELSE [ store EXCEPT !.files = @ \cup
             { [ id |-> newid, filename |-> filename, fetched_at |-> ts,
                 sha256 |-> file_sha, size_bytes |-> size, processed_at |-> now ] } ]

UpsertFile(store, filename, ts, file_sha, size, now, newid) ==
  IF HasFileRow(store, filename)
    THEN LET old == FileRow(store, filename)
         IN  [ store EXCEPT !.files = (@ \ { old }) \cup
                 { [ old EXCEPT !.sha256 = file_sha,
                                !.size_bytes = size,
                                !.fetched_at = IF old.fetched_at # None THEN old.fetched_at ELSE ts,
                                !.processed_at = now ] } ]
    ELSE [ store EXCEPT !.files = @ \cup
             { [ id |-> newid, filename |-> filename, fetched_at |-> ts,
                 sha256 |-> file_sha, size_bytes |-> size, processed_at |-> now ] } ]

\* SELECT 1 FROM targets WHERE file_id = %s LIMIT 1
HasTargets(store, file_id) ==
  \E i \in 1..Len(store.targets) : store.targets[i].file_id = file_id

\* hashlib.sha256 over the bytes of a file: distinct contents, distinct digests.
Sha256(content) == << "sha256", content >>

\* -------------------------------------------- processor.py: process_file

\* The tuple built for one entry of randoms.
RandomRecord(file_id, r) ==
  [ file_id |-> file_id,
    name |-> Get(r, "name"),
    remote_id |-> Get(r, "id"),
    digit |-> OptBool(Get(r, "digit")),
    upper |-> OptBool(Get(r, "upper")),
    lower |-> OptBool(Get(r, "lower")),
    min_value |-> Get(r, "min"),
    max_value |-> Get(r, "max") ]

\* The tuple built for one entry of targets.
TargetRecord(file_id, t) ==
  [ file_id |-> file_id,
    target_id |-> Get(t, "target_id"),
    request_id |-> Get(t, "request_id"),
    host |-> Get(t, "host"),
    normalized_host |-> normalize_hostname(Get(t, "host")),
    ip |-> IF Truthy(Get(t, "ip")) THEN Get(t, "ip") ELSE None,
    type |-> Get(t, "type"),
    method |-> Get(t, "method"),
    port |-> Get(t, "port"),
    use_ssl |-> OptBool(Get(t, "use_ssl")),
    path |-> Get(t, "path"),
    body |-> Get(t, "body"),
    headers |-> Get(t, "headers") ]

\* The records that have expected_len values.
validate_records(records, expected_len) ==
  SelectSeq(records, LAMBDA r : Cardinality(DOMAIN r) = expected_len)

RandomRecords(file_id, randoms) ==
  validate_records([ i \in 1..Len(randoms) |-> RandomRecord(file_id, randoms[i]) ], 8)

\* DedupTargets without the seen_hosts test: every entry with a normalized host
\* yields a record.
DedupTargets_KeepAll(file_id, targets, seen_hosts) ==
  LET kept == SelectSeq(targets, LAMBDA t : normalize_hostname(Get(t, "host")) # None)
  IN  [ i \in 1..Len(kept) |-> TargetRecord(file_id, kept[i]) ]

\* The loop over targets: entries without a normalized host are skipped, and so
\* is an entry whose normalized host an earlier entry of the file had.
RECURSIVE DedupTargets(_, _, _)
DedupTargets(file_id, targets, seen_hosts) ==
  IF targets = << >> THEN << >>
  ELSE LET t == Head(targets)
           normalized == normalize_hostname(Get(t, "host"))
       IN  IF normalized = None \/ normalized \in seen_hosts
             THEN DedupTargets(file_id, Tail(targets), seen_hosts)
             ELSE << TargetRecord(file_id, t) >>
                    \o DedupTargets(file_id, Tail(targets), seen_hosts \cup { normalized })

TargetRecords(file_id, targets) ==
  validate_records(DedupTargets(file_id, targets, { }), 13)

\* data.get(key, []) or []: the list under key, empty when the key is absent.
ListOf(data, key) == IF key \in DOMAIN data THEN data[key] ELSE << >>

\* The execute_batch of the randoms, in the open transaction.
InsertRandoms(store, file_id, data) ==
  [ store EXCEPT !.randoms = @ \o RandomRecords(file_id, ListOf(data, "randoms")) ]

\* The execute_batch of the targets, in the open transaction.
InsertTargets(store, file_id, data) ==
  [ store EXCEPT !.targets = @ \o TargetRecords(file_id, ListOf(data, "targets")) ]

\* ---------------------------------------------- processor.py: main_loop

NoConn == [ state |-> "none", now |-> 0 ]
IdleConn == [ state |-> "idle", now |-> 0 ]

\* Glob over the processed directory instead of pending.
Glob_Processed == Sorted({ n \in FileNames : Exists(processed, n) /\ EndsWith(n, DotJson) })

\* sorted(PENDING_DIR.glob("*.json"))
Glob == Sorted({ n \in PendNames : Exists(pending, n) /\ EndsWith(n, DotJson) })

\* The file the Ingestor is at.
CurFile == Head(iq)

\* logger.info / logger.error / logger.exception about a file.
Logged(f, event) == log' = [ file |-> f, event |-> event ]

NoLog == [ file |-> None, event |-> "none" ]

\* The for loop goes on with the next file; after the last one the with block
\* of the connection is left.
INextFile ==
  /\ iq' = Tail(iq)
  /\ ipc' = IF Tail(iq) = << >> THEN "exit" ELSE "file"

\* f.replace(PROCESSED_DIR / f.name); a missing source raises and is logged.
Relocate(f) ==
  IF Exists(pending, f)
    THEN SetFs(ino, [pending EXCEPT ![f] = 0], [processed EXCEPT ![f] = pending[f]], ffd)
    ELSE UNCHANGED << ino, pending, processed, ffd >>

\* with connect() as conn: files = sorted(PENDING_DIR.glob("*.json"))
IScan ==
  /\ ipc = "idle"
  /\ conn' = IdleConn
  /\ iq' = Glob
  /\ ipc' = IF Glob = << >> THEN "exit" ELSE "file"
  /\ UNCHANGED << envVars, fsVars, fVars, db, work, clock, log, hist, faults >>

\* IConnectFail without the except clause of the loop: the process ends.
IConnectFail_Terminate ==
  /\ ipc = "idle"
  /\ FaultAllowed
  /\ faults' = Charge
  /\ ipc' = "terminated"
  /\ UNCHANGED << envVars, fsVars, fVars, iq, conn, db, work, clock, log, hist >>

\* connect() raises: the loop-level handler sleeps and the loop starts over.
IConnectFail ==
  /\ ipc = "idle"
  /\ FaultAllowed
  /\ faults' = Charge
  /\ UNCHANGED << envVars, fsVars, fVars, iVars >>

\* last.json is moved to processed without being ingested.
ISkipLast ==
  /\ ipc = "file"
  /\ Lower(CurFile) = LastJson
  /\ Relocate(CurFile)
  /\ INextFile
  /\ Logged(CurFile, "skipping last.json")
  /\ UNCHANGED << envVars, downloads, fpc, fq, foff, conn, db, work, clock, hist, faults >>

\* process_file raises before it changed anything: the file cannot be read, or
\* the connection is in a failed transaction.
IFileError ==
  /\ ipc = "file"
  /\ Lower(CurFile) # LastJson
  /\ ~Exists(pending, CurFile) \/ conn.state = "inerror"
  /\ INextFile
  /\ Logged(CurFile, "processing failed")
  /\ UNCHANGED << envVars, fsVars, fVars, conn, db, work, clock, hist, faults >>

\* IUpsert with a commit right after the upsert (the files row is published
\* before the records are inserted).
IUpsert_Autocommit ==
  /\ ipc = "file"
  /\ Lower(CurFile) # LastJson
  /\ Exists(pending, CurFile)
  /\ conn.state \in { "idle", "intrans" }
  /\ clock.seq < MaxClock
  /\ LET content == ino[pending[CurFile]]
         now == IF conn.state = "intrans" THEN conn.now ELSE clock.now + 1
         after == UpsertFile(work, CurFile, parse_timestamp_from_filename(CurFile),
                             Sha256(content), Len(content), now, clock.seq + 1)
     IN  /\ work' = after
         /\ db' = after
         /\ conn' = IdleConn
         /\ clock' = [ now |-> now, seq |-> clock.seq + 1 ]
         /\ ipc' = IF HasTargets(after, FileRow(after, CurFile).id)
                   THEN "skip_commit"
                   ELSE "load"
  /\ Logged(CurFile, "processing")
  /\ UNCHANGED << envVars, fsVars, fVars, iq, hist, faults >>

\* process_file up to the skip test: the file is hashed, the files row is
\* upserted in the (implicitly begun) transaction, and the stored hash and
\* size are compared with the computed ones.
IUpsert ==
  /\ ipc = "file"
  /\ Lower(CurFile) # LastJson
  /\ Exists(pending, CurFile)
  /\ conn.state \in { "idle", "intrans" }
  /\ clock.seq < MaxClock
  /\ LET content == ino[pending[CurFile]]
         file_sha == Sha256(content)
         size == Len(content)
         now == IF conn.state = "intrans" THEN conn.now ELSE clock.now + 1
         after == UpsertFile(work, CurFile, parse_timestamp_from_filename(CurFile),
                             file_sha, size, now, clock.seq + 1)
         existing == FileRow(after, CurFile)
     IN  /\ work' = after
         /\ conn' = [ state |-> "intrans", now |-> now ]
         /\ clock' = [ now |-> now, seq |-> clock.seq + 1 ]
         /\ ipc' = IF /\ existing.sha256 = file_sha
                      /\ existing.size_bytes = size
                      /\ HasTargets(after, existing.id)
                   THEN "skip_commit"
                   ELSE "load"
  /\ Logged(CurFile, "processing")
  /\ UNCHANGED << envVars, fsVars, fVars, iq, db, hist, faults >>

\* The upsert raises a store error: nothing rolls back, the transaction stays
\* aborted on the connection, and main_loop logs the failure of the file.
IUpsertFail ==
  /\ ipc = "file"
  /\ Lower(CurFile) # LastJson
  /\ Exists(pending, CurFile)
  /\ conn.state \in { "idle", "intrans" }
  /\ FaultAllowed
  /\ faults' = Charge
  /\ conn' = [ state |-> "inerror", now |-> 0 ]
  /\ work' = db
  /\ INextFile
  /\ Logged(CurFile, "processing failed")
  /\ UNCHANGED << envVars, fsVars, fVars, db, clock, hist >>

\* "already ingested, skipping": conn.commit() and return.
ISkipCommit ==
  /\ ipc = "skip_commit"
  /\ db' = work
  /\ work' = work
  /\ conn' = IdleConn
  /\ ipc' = "move"
  /\ Logged(CurFile, "already ingested, skipping")
  /\ UNCHANGED << envVars, fsVars, fVars, iq, clock, hist, faults >>

\* The parsed content of the file the Ingestor is at.
CurData == JsonLoad(ino[pending[CurFile]])

\* r.get / t.get on an entry that is not an object raises AttributeError inside
\* the try: the except branch rolls back and re-raises, main_loop logs and goes on.
AllObjects(entries) == \A i \in 1..Len(entries) : IsObject(entries[i])

RecordError ==
  /\ work' = db
  /\ conn' = IdleConn
  /\ INextFile
  /\ Logged(CurFile, "failed inserting records")

\* json.load and the randoms: a file that does not parse makes process_file
\* return, with neither commit nor rollback; otherwise the randoms records are
\* built and inserted in the open transaction.
ILoad ==
  /\ ipc = "load"
  /\ IF Exists(pending, CurFile) /\ Parses(ino[pending[CurFile]])
       THEN IF AllObjects(ListOf(CurData, "randoms"))
              THEN /\ work' = InsertRandoms(work, FileRow(work, CurFile).id, CurData)
                   /\ ipc' = "targets"
                   /\ UNCHANGED << iq, conn, log >>
              ELSE RecordError
       ELSE /\ work' = work
            /\ ipc' = "move"
            /\ Logged(CurFile, "failed to parse JSON")
            /\ UNCHANGED << iq, conn >>
  /\ UNCHANGED << envVars, fsVars, fVars, db, clock, hist, faults >>

\* The targets: deduplicated by normalized host and inserted in the open
\* transaction. (The parsed data is in memory: it is that of the file, which
\* nothing rewrites under its final name while it is ingested.)
ITargets ==
  /\ ipc = "targets"
  /\ IF AllObjects(ListOf(CurData, "targets"))
       THEN /\ work' = InsertTargets(work, FileRow(work, CurFile).id, CurData)
            /\ ipc' = "commit"
            /\ UNCHANGED << iq, conn, log >>
       ELSE RecordError
  /\ UNCHANGED << envVars, fsVars, fVars, db, clock, hist, faults >>

\* conn.commit() after the inserts.
ICommit ==
  /\ ipc = "commit"
  /\ db' = work
  /\ work' = work
  /\ conn' = IdleConn
  /\ ipc' = "move"
  /\ Logged(CurFile, "inserted")
  /\ hist' = [hist EXCEPT ![CurFile].commits = @ + 1]
  /\ UNCHANGED << envVars, fsVars, fVars, iq, clock, faults >>

\* IInsertFail without the conn.rollback() of the except branch.
IInsertFail_NoRollback ==
  /\ ipc \in { "targets", "commit" }
  /\ FaultAllowed
  /\ faults' = Charge
  /\ INextFile
  /\ Logged(CurFile, "failed inserting records")
  /\ UNCHANGED << envVars, fsVars, fVars, conn, db, work, clock, hist >>

\* An execute_batch or the commit raises: conn.rollback(), and the exception
\* reaches main_loop, which logs it and goes on.
IInsertFail ==
  /\ ipc \in { "targets", "commit" }
  /\ FaultAllowed
  /\ faults' = Charge
  /\ work' = db
  /\ conn' = IdleConn
  /\ INextFile
  /\ Logged(CurFile, "failed inserting records")
  /\ UNCHANGED << envVars, fsVars, fVars, db, clock, hist >>

\* process_file returned: the file is moved to processed.
IMove ==
  /\ ipc = "move"
  /\ Relocate(CurFile)
  /\ INextFile
  /\ UNCHANGED << envVars, downloads, fpc, fq, foff, conn, db, work, clock, log, hist, faults >>

\* The move raises: logged, the file stays in pending.
IMoveFail ==
  /\ ipc = "move"
  /\ FaultAllowed
  /\ faults' = Charge
  /\ INextFile
  /\ Logged(CurFile, "failed to move")
  /\ UNCHANGED << envVars, fsVars, fVars, conn, db, work, clock, hist >>

\* The with block of the connection is left: psycopg2 commits the transaction
\* that is open (a commit of an aborted one rolls it back), then the loop sleeps.
IExit ==
  /\ ipc = "exit"
  /\ db' = IF conn.state = "intrans" THEN work ELSE db
  /\ work' = IF conn.state = "intrans" THEN work ELSE db
  /\ conn' = NoConn
  /\ ipc' = "idle"
  /\ log' = NoLog
  /\ UNCHANGED << envVars, fsVars, fVars, iq, clock, hist, faults >>

\* The Ingestor process is killed and started again: the store discards the
\* transaction that was open.
ICrash ==
  /\ ipc # "idle"
  /\ FaultAllowed
  /\ faults' = Charge
  /\ work' = db
  /\ conn' = NoConn
  /\ iq' = << >>
  /\ ipc' = "idle"
  /\ log' = NoLog
  /\ hist' = IF ipc \in { "targets", "commit" }
              THEN [hist EXCEPT ![CurFile].killed = TRUE]
              ELSE hist
  /\ UNCHANGED << envVars, fsVars, fVars, db, clock >>

Ingestor ==
  \/ IScan
  \/ IConnectFail
  \/ ISkipLast
  \/ IFileError
  \/ IUpsert
  \/ IUpsertFail
  \/ ISkipCommit
  \/ ILoad
  \/ ITargets
  \/ ICommit
  \/ IInsertFail
  \/ IMove
  \/ IMoveFail
  \/ IExit

\* ---------------------------------------------------------- specifications

\* The starting points explored: an assignment of documents to the resources
\* of the source, and whether an earlier deployment left a last.json in pending.
Scenarios ==
  { [ remote |-> [ n \in Names |-> IF n = NameA THEN "T" ELSE "R" ], staged |-> FALSE ],
    [ remote |-> [ n \in Names |-> IF n = NameA THEN "X" ELSE "T" ], staged |-> FALSE ],
    [ remote |-> [ n \in Names |-> IF n = NameA THEN "R" ELSE "X" ], staged |-> TRUE ] }

\* The body of a last.json an earlier deployment may have left in pending.
LatestBody == Body("T")

\* The staging area is empty, but for a last.json that may be in pending; the
\* source serves one of the given assignments of documents.
InitWith(scenarios) ==
  /\ \E sc \in scenarios :
       /\ remote = sc.remote
       /\ ino = [ i \in Inodes |-> IF sc.staged /\ i = 1 THEN LatestBody ELSE << >> ]
       /\ pending = [ n \in PendNames |-> IF sc.staged /\ n = LastJson THEN 1 ELSE 0 ]
  /\ processed = [ n \in FileNames |-> 0 ]
  /\ downloads = { }
  /\ fpc = [ w \in Fetchers |-> "idle" ]
  /\ fq = [ w \in Fetchers |-> << >> ]
  /\ ffd = [ w \in Fetchers |-> 0 ]
  /\ foff = [ w \in Fetchers |-> 0 ]
  /\ ipc = "idle"
  /\ iq = << >>
  /\ conn = NoConn
  /\ db = EmptyStore
  /\ work = EmptyStore
  /\ clock = [ now |-> 0, seq |-> 0 ]
  /\ log = NoLog
  /\ hist = [ n \in Names |-> [ commits |-> 0, killed |-> FALSE ] ]
  /\ call = NoCall

InitCommon == InitWith(Scenarios)

\* One Fetcher and one Ingestor, with crashes and failures at any point.
Init == InitCommon /\ faults = -1

Next ==
  \/ Fetcher(1)
  \/ FCrash(1)
  \/ Ingestor
  \/ ICrash

Spec == Init /\ [][Next]_vars

\* The same start, with at most MaxFaults failures and crashes to come.
BudgetInit == InitCommon /\ faults = 0

\* Two Fetcher replicas against the same staging area, failing or crashing at
\* any point at most MaxFaults times.
ReplicaNext ==
  \E w \in Fetchers :
    \/ Fetcher(w)
    \/ FCrash(w)

ReplicaSpec == BudgetInit /\ [][ReplicaNext]_vars

\* One Fetcher alone under the same budget, after which the listing and every
\* download succeed; its loop keeps running.

FetcherNext ==
  \/ Fetcher(1)
  \/ FCrash(1)

FetcherFairSpec == BudgetInit /\ [][FetcherNext]_vars /\ WF_vars(Fetcher(1))

\* One Fetcher that is never killed, whose listing requests and downloads fail
\* at most MaxFaults times; its loop keeps running.
RetrySpec == BudgetInit /\ [][Fetcher(1)]_vars /\ WF_vars(Fetcher(1))

\* One Fetcher and the Ingestor, neither ever killed, with one error to come
\* in a cycle of either; both loops keep running.
LoopNext ==
  \/ Fetcher(1)
  \/ Ingestor

LoopInit ==
  /\ InitWith({ [ remote |-> [ n \in Names |-> IF n = NameA THEN "T" ELSE "R" ],
                  staged |-> TRUE ] })
  /\ faults = MaxFaults - 1

LoopSpec == LoopInit /\ [][LoopNext]_vars /\ WF_vars(Fetcher(1)) /\ WF_vars(Ingestor)

\* The pipeline when nothing fails and nothing is killed: the steps of one
\* Fetcher and of the Ingestor that need no failure to happen.
FetcherSteady ==
  \/ FListing(1)
  \/ FCheckProcessed(1)
  \/ FCheckPending(1)
  \/ FCheckTmp(1)
  \/ FGet(1)
  \/ FOpen(1)
  \/ FWrite(1)
  \/ FClose(1)
  \/ FRename(1)

IngestorSteady ==
  \/ IScan
  \/ ISkipLast
  \/ IUpsert
  \/ ISkipCommit
  \/ ILoad
  \/ ITargets
  \/ ICommit
  \/ IMove
  \/ IExit

SteadyNext ==
  \/ FetcherSteady
  \/ IngestorSteady

\* The source serves a document with malformed entries beside a well-formed one.
MalformedScenarios ==
  { [ remote |-> [ n \in Names |-> IF n = NameA THEN "T" ELSE "M" ], staged |-> FALSE ],
    [ remote |-> [ n \in Names |-> IF n = NameA THEN "R" ELSE "M" ], staged |-> TRUE ] }

\* No failure and no kill is to come.
MalformedInit == InitWith(MalformedScenarios) /\ faults = MaxFaults

MalformedSpec == MalformedInit /\ [][SteadyNext]_vars

\* The source serves well-formed documents only.
WellFormedScenarios ==
  { [ remote |-> [ n \in Names |-> IF n = NameA THEN "T" ELSE "R" ], staged |-> FALSE ],
    [ remote |-> [ n \in Names |-> IF n = NameA THEN "R" ELSE "T" ], staged |-> TRUE ] }

DrainInit == InitWith(WellFormedScenarios) /\ faults = MaxFaults

\* The pipeline with the store available and nothing failing; the Ingestor's
\* loop keeps running (it sleeps and scans again, whatever the Fetcher does).
DrainSpec == DrainInit /\ [][SteadyNext]_vars /\ WF_vars(IngestorSteady)

\* One Fetcher whose requests, opens and writes may fail at any time but which
\* is never killed, beside an Ingestor that runs without failures.
DownloadFailNext ==
  \/ Fetcher(1)
  \/ IngestorSteady

DownloadFailSpec == Init /\ [][DownloadFailNext]_vars

\* The source replaces the document it serves under a name: a resource that
\* had targets and randoms now has randoms only. A response that is being
\* streamed keeps the body it was opened with.
Republish ==
  /\ \A w \in Fetchers : fpc[w] \notin { "open", "write" }
  /\ \E n \in Names :
       /\ remote[n] = "T"
       /\ remote' = [remote EXCEPT ![n] = "R"]
  /\ UNCHANGED << call, fsVars, fVars, iVars, faults >>

RepublishNext ==
  \/ SteadyNext
  \/ Republish

\* The pipeline with nothing failing, against a source that may republish.
RepublishSpec == DrainInit /\ [][RepublishNext]_vars

\* The store after the committed ingestion of the one file b.json with
\* document T. (Ids are opaque: this row has the id the sequence starts from.)
IngestedB ==
  LET row == UpsertFile(EmptyStore, NameB, parse_timestamp_from_filename(NameB),
                        Sha256(Body("T")), Len(Body("T")), 0, 0)
  IN  InsertTargets(InsertRandoms(row, 0, DocData("T")), 0, DocData("T"))

\* b.json was ingested and committed but not moved (the move failed, or the
\* Ingestor was killed before it), so it is in pending again at the next scan;
\* the source lists beside it a resource not yet downloaded, unparseable or
\* well-formed, and a last.json may be in pending.
RescanInit ==
  /\ \E d \in { "X", "R" }, staged \in BOOLEAN :
       /\ remote = [ n \in Names |-> IF n = NameA THEN d ELSE "T" ]
       /\ ino = [ i \in Inodes |-> IF i = 1 THEN Body("T")
                                   ELSE IF staged /\ i = 2 THEN LatestBody
                                   ELSE << >> ]
       /\ pending = [ n \in PendNames |-> IF n = NameB THEN 1
                                          ELSE IF staged /\ n = LastJson THEN 2
                                          ELSE 0 ]
  /\ processed = [ n \in FileNames |-> 0 ]
  /\ downloads = { }
  /\ fpc = [ w \in Fetchers |-> "idle" ]
  /\ fq = [ w \in Fetchers |-> << >> ]
  /\ ffd = [ w \in Fetchers |-> 0 ]
  /\ foff = [ w \in Fetchers |-> 0 ]
  /\ ipc = "idle"
  /\ iq = << >>
  /\ conn = NoConn
  /\ db = IngestedB
  /\ work = IngestedB
  /\ clock = [ now |-> 0, seq |-> 0 ]
  /\ log = NoLog
  /\ hist = [ n \in Names |-> [ commits |-> IF n = NameB THEN 1 ELSE 0, killed |-> FALSE ] ]
  /\ call = NoCall
  /\ faults = MaxFaults

\* The pipeline from there on, with nothing failing.
RescanSpec == RescanInit /\ [][SteadyNext]_vars

\* ------------------------------------------------ functions on their own

\* Hrefs a directory listing can hold: the parent link, resources in lower and
\* upper case, the reserved name, a name that ends with it, a page that is not
\* JSON, an absolute path and an absolute url.
Hrefs ==
  { << ".", ".", "/" >>,
    NameA,
    << "B", ".", "J", "S", "O", "N" >>,
    LastJson,
    << "x" >> \o LastJson,
    << "a", ".", "t", "x", "t" >>,
    << "/", "c" >> \o DotJson,
    << "h", ":", "/", "/", "o", "/", "d" >> \o DotJson }

\* Longest listing check_for_json is applied to on its own.
MaxLinks == 2

SeqsUpTo(S, k) == UNION { [ 1..m -> S ] : m \in 0..k }

\* check_for_json on a listing: the urls it goes on to download, in order.
CallCheckForJson ==
  /\ call.fn = "none"
  /\ \E links \in SeqsUpTo(Hrefs, MaxLinks) :
       call' = [ fn |-> "check_for_json", arg |-> links, out |-> Candidates(links) ]
  /\ UNCHANGED << remote, fsVars, fVars, iVars, faults >>

\* Date and time fields a filename token is written with, valid and not.
DayFields == { << "1", "5" >>, << "2", "9" >>, << "3", "1" >>, << "0", "0" >> }
MonthFields == { << "0", "3" >>, << "0", "2" >>, << "1", "3" >> }
YearFields == { << "2", "0", "2", "4" >>, << "2", "0", "2", "3" >> }
TimeFields ==
  { << << "1", "0" >>, << "3", "0" >>, << "0", "0" >> >>,
    << << "2", "4" >>, << "0", "0" >>, << "0", "0" >> >>,
    << << "2", "3" >>, << "5", "9" >>, << "6", "0" >> >> }

\* How the fields are laid out at the start of the name: the two token
\* patterns, a token with the wrong separators, a token that comes second.
Layouts == { "DMY", "YMD", "slashes", "prefixed" }

Dash == << "-" >>
DataSuffix == << "_", "d", "a", "t", "a" >> \o DotJson

TokenDMY(f) ==
  f.d \o Dash \o f.m \o Dash \o f.y \o << "_" >> \o f.t[1] \o Dash \o f.t[2] \o Dash \o f.t[3]

TokenYMD(f) ==
  f.y \o Dash \o f.m \o Dash \o f.d \o << "_" >> \o f.t[1] \o Dash \o f.t[2] \o Dash \o f.t[3]

FileNameWith(f) ==
  IF f.layout = "DMY" THEN TokenDMY(f) \o DataSuffix
  ELSE IF f.layout = "YMD" THEN TokenYMD(f) \o DataSuffix
  ELSE IF f.layout = "slashes"
    THEN f.d \o << "/" >> \o f.m \o << "/" >> \o f.y \o << "_" >> \o f.t[1] \o Dash \o f.t[2]
           \o Dash \o f.t[3] \o DataSuffix
  ELSE << "x", "_" >> \o TokenYMD(f) \o DataSuffix

\* parse_timestamp_from_filename on a filename written with the given fields.
CallParseTimestamp ==
  /\ call.fn = "none"
  /\ \E f \in [ layout : Layouts, d : DayFields, m : MonthFields, y : YearFields, t : TimeFields ] :
       call' = [ fn |-> "parse_timestamp_from_filename", arg |-> f,
                 out |-> parse_timestamp_from_filename(FileNameWith(f)) ]
  /\ UNCHANGED << remote, fsVars, fVars, iVars, faults >>

\* Characters hostnames are written with on their own: whitespace, both cases
\* of the prefix letter, the dot, another letter.
HostChars == { " ", "w", "W", ".", "a" }

\* Longest hostname written with HostChars.
MaxHostLen == 5

\* Longer hostnames: that of the example, a doubled prefix, whitespace inside.
HostSamples ==
  { << "W", "W", "W", ".", "E", "x", "a", "m", "p", "l", "e", ".", "c", "o", "m", " " >>,
    << " ", "w", "w", "w", ".", "W", "W", "W", ".", "a", ".", "c", "o", "m" >>,
    << "W", "w", "w", ".", " ", "a", " ", "b", " " >> }

\* normalize_hostname on a string.
CallNormalize ==
  /\ call.fn = "none"
  /\ \E hostname \in SeqsUpTo(HostChars, MaxHostLen) \cup HostSamples :
       call' = [ fn |-> "normalize_hostname", arg |-> hostname,
                 out |-> normalize_hostname(hostname) ]
  /\ UNCHANGED << remote, fsVars, fVars, iVars, faults >>

\* What a boolean field of an entry can hold in the source: JSON null, true,
\* false, 0, 1, the empty string, a string; or the key is absent.
FlagValues == { None, True, False, IntZero, IntOne, << >>, << "n", "o" >> }
FlagChoices == FlagValues \cup { << "absent" >> }

\* An entry with the given fixed fields and, under each key of flags that is
\* not absent, the chosen value.
WithFlags(fixed, flags) ==
  [ k \in DOMAIN fixed \cup { f \in DOMAIN flags : flags[f] \in FlagValues } |->
      IF k \in DOMAIN fixed THEN fixed[k] ELSE flags[k] ]

\* The inserts of process_file for the file with id 1, on a document with one
\* random entry and one target entry whose boolean fields are any of the above.
CallInsertRecords ==
  /\ call.fn = "none"
  /\ \E rflags \in [ { "digit", "upper", "lower" } -> FlagChoices ],
        tflags \in [ { "use_ssl" } -> FlagChoices ] :
       LET data == [ randoms |-> << WithFlags([ name |-> << "r" >> ], rflags) >>,
                     targets |-> << WithFlags([ host |-> HostA ], tflags) >> ]
       IN  call' = [ fn |-> "insert_records", arg |-> data,
                     out |-> InsertTargets(InsertRandoms(EmptyStore, 1, data), 1, data) ]
  /\ UNCHANGED << remote, fsVars, fVars, iVars, faults >>

\* Timestamps, digests and sizes the files upsert is applied with.
StampOne == << "2", "0", "2", "4", "-", "0", "3", "-", "1", "5", "_", "1", "0", "-", "3", "0", "-", "0", "0" >>
StampTwo == << "2", "0", "2", "3", "-", "0", "3", "-", "1", "5", "_", "1", "0", "-", "3", "0", "-", "0", "0" >>

\* Most upserts applied in a row on their own.
MaxUpserts == 3

\* The files upsert applied to the store the previous upsert left (the empty
\* store at first), for any filename, timestamp, digest and size.
CallUpsert ==
  /\ call.fn \in { "none", "upsert" }
  /\ LET before == IF call.fn = "upsert" THEN call.out ELSE EmptyStore
         count == IF call.fn = "upsert" THEN call.arg.count ELSE 0
     IN  /\ count < MaxUpserts
         /\ \E filename \in Names, ts \in { None, StampOne, StampTwo },
                content \in { Body("T"), Body("R") } :
              call' = [ fn |-> "upsert",
                        arg |-> [ before |-> before, filename |-> filename, ts |-> ts,
                                  sha256 |-> Sha256(content), size_bytes |-> Len(content),
                                  now |-> count + 1, count |-> count + 1 ],
                        out |-> UpsertFile(before, filename, ts, Sha256(content), Len(content),
                                           count + 1, count + 1) ]
  /\ UNCHANGED << remote, fsVars, fVars, iVars, faults >>

FunctionNext ==
  \/ CallCheckForJson
  \/ CallParseTimestamp
  \/ CallNormalize
  \/ CallInsertRecords
  \/ CallUpsert

\* The functions applied on their own, the pipeline standing still.
FunctionInit == InitWith({ [ remote |-> [ n \in Names |-> "T" ], staged |-> FALSE ] }) /\ faults = MaxFaults

FunctionSpec == FunctionInit /\ [][FunctionNext]_vars

\* ------------------------------------------------------------------ claims

\* The file n of pending is one whose earlier ingestion committed and whose
\* bytes are those the committed files row was computed from.
UnchangedSinceIngested(n) ==
  /\ hist[n].commits >= 1
  /\ Exists(pending, n)
  /\ HasFileRow(db, n)
  /\ FileRow(db, n).sha256 = Sha256(ino[pending[n]])
  /\ FileRow(db, n).size_bytes = Len(ino[pending[n]])

\* C1: a second run of process_file on a file that is unchanged since its
\* committed ingestion inserts nothing: when it has built its records, the
\* transaction holds exactly the targets and randoms rows that were committed.
C1_SecondRunInsertsNothing ==
  (ipc \in { "targets", "commit" } /\ UnchangedSinceIngested(CurFile))
    => (work.targets = db.targets /\ work.randoms = db.randoms)

\* C2: every timestamped file that is in processed has a committed files row.
C2_ProcessedImpliesStored ==
  \A n \in Names : Exists(processed, n) => HasFileRow(db, n)

\* C3: with one Fetcher and one Ingestor, no filename is in pending and in
\* processed at the same time.
C3_AtMostOneDirectory ==
  \A n \in FileNames : ~(Exists(pending, n) /\ Exists(processed, n))

\* C4: with a single Fetcher, a file under its final name in pending holds the
\* complete body, is not open for writing, has no temp file left beside it,
\* and the Ingestor's scan selects final names only.
C4_FinalNameIsComplete ==
  /\ \A n \in Names :
        Exists(pending, n) =>
          /\ ino[pending[n]] = Body(remote[n])
          /\ \A w \in Fetchers : ffd[w] # pending[n]
          /\ ~Exists(pending, TmpName(n))
  /\ \A n \in Names : TmpName(n) \notin Range(Glob) \cup Range(iq)

\* C4 happens: the Ingestor is at a complete file of pending while the Fetcher
\* has written part of the next resource to its temp file.
C4_Witness ==
  /\ ipc = "file"
  /\ \E n, m \in Names :
        /\ CurFile = n
        /\ Exists(pending, n)
        /\ Exists(pending, TmpName(m))
        /\ ffd[1] = pending[TmpName(m)]
        /\ Len(ino[pending[TmpName(m)]]) \in 1..(NumChunks - 1)

\* C5: with two Fetcher replicas in any interleaving, a resource's final name
\* in pending never holds truncated, incomplete or interleaved content.
C5_ReplicasNeverCorrupt ==
  \A n \in Names : Exists(pending, n) => ino[pending[n]] = Body(remote[n])

\* C6: a file that does not parse as JSON is never relocated: no file of
\* processed is unparseable.
C6_UnparseableNotRelocated ==
  \A n \in Names : Exists(processed, n) => Parses(ino[processed[n]])

\* The rows of a table that belong to the files row with this id.
RowsOf(table, file_id) == SelectSeq(table, LAMBDA r : r.file_id = file_id)

\* The step is an insert failure of process_file (its except branch logs it).
InsertFailedStep ==
  /\ log' # log
  /\ log'.event = "failed inserting records"

ExpectedStored(d) ==
  IF d = "M" THEN [ hosts |-> << HostB >>, randoms |-> << << "r", "3" >> >> ]
  ELSE IF d = "T" THEN [ hosts |-> << HostA >>, randoms |-> << << "r", "1" >> >> ]
  ELSE IF d = "R" THEN [ hosts |-> << >>, randoms |-> << << "r", "2" >> >> ]
  ELSE [ hosts |-> << >>, randoms |-> << >> ]

\* The same view of what the committed store holds for file n.
Stored(n) ==
  LET id == FileRow(db, n).id
      ts == RowsOf(db.targets, id)
      rs == RowsOf(db.randoms, id)
  IN  [ hosts |-> [ i \in 1..Len(ts) |-> ts[i].normalized_host ],
        randoms |-> [ i \in 1..Len(rs) |-> rs[i].name ] ]

C9_KilledFetcherResumes ==
  \A n \in Names : (fpc[1] = "idle") ~> Exists(pending, n)

RECURSIVE Repeat(_, _)
Repeat(q, k) == IF k = 0 THEN << >> ELSE q \o Repeat(q, k - 1)

\* The parsed content of document d, nothing for the one that does not parse.
DataOf(d) == IF d = "X" THEN [ targets |-> << >>, randoms |-> << >> ] ELSE DocData(d)

\* C10: in the committed store every targets and randoms row belongs to a
\* files row, and the rows of a file are whole ingestions of it: some number
\* of times all its randoms records together with as many times all its
\* surviving targets records, never a part of them.
C10_AllOrNothing ==
  /\ \A i \in 1..Len(db.targets) : \E r \in db.files : r.id = db.targets[i].file_id
  /\ \A i \in 1..Len(db.randoms) : \E r \in db.files : r.id = db.randoms[i].file_id
  /\ \A r \in db.files :
        \E k \in 0..MaxClock :
          /\ RowsOf(db.randoms, r.id) =
               Repeat(RandomRecords(r.id, ListOf(DataOf(remote[r.filename]), "randoms")), k)
          /\ RowsOf(db.targets, r.id) =
               Repeat(TargetRecords(r.id, ListOf(DataOf(remote[r.filename]), "targets")), k)

\* C10 happens: the ingestion of a file with targets and randoms failed or was
\* killed after its randoms were inserted, and none of its rows is visible.
C10_Witness ==
  \E n \in Names :
    /\ remote[n] = "T"
    /\ hist[n].killed \/ log = [ file |-> n, event |-> "failed inserting records" ]
    /\ hist[n].commits = 0
    /\ ~HasFileRow(db, n)
    /\ db.randoms # << >>

\* The first entry of a targets list whose host normalizes to h.
FirstWithHost(targets, h) ==
  targets[CHOOSE i \in 1..Len(targets) :
            /\ normalize_hostname(Get(targets[i], "host")) = h
            /\ \A j \in 1..(i - 1) : normalize_hostname(Get(targets[j], "host")) # h]

\* The targets rows of a store are unique per (file_id, normalized_host), and
\* each is the record of the first entry of its file with that host.
DedupedStore(store) ==
  /\ \A i, j \in 1..Len(store.targets) :
        (i # j /\ store.targets[i].file_id = store.targets[j].file_id)
          => store.targets[i].normalized_host # store.targets[j].normalized_host
  /\ \A i \in 1..Len(store.targets) :
        \E r \in store.files :
          /\ r.id = store.targets[i].file_id
          /\ store.targets[i] =
               TargetRecord(r.id, FirstWithHost(ListOf(DataOf(remote[r.filename]), "targets"),
                                                store.targets[i].normalized_host))

\* C11: with a single Ingestor, in the committed store and in the open
\* transaction no two targets rows of one file_id share a normalized_host, and
\* the row of a normalized host is the one built from its first entry in the file.
C11_NormalizedHostUnique == DedupedStore(db) /\ DedupedStore(work)

\* C11 happens: a file whose entries a.com and WWW.A.com collide was ingested,
\* stayed in pending, and has just been ingested again: one row is stored.
C11_Witness ==
  \E n \in Names :
    /\ remote[n] = "T"
    /\ hist[n].commits = 1
    /\ log = [ file |-> n, event |-> "already ingested, skipping" ]
    /\ ipc = "move"
    /\ Len(db.targets) = 1
    /\ db.targets[1].host = HostA

\* C12: a file whose arrays hold malformed entries is not aborted: its
\* ingestion never fails on the records, and what it commits is exactly its
\* well-formed entries.
C12_MalformedEntriesIsolated ==
  \A n \in Names :
    remote[n] = "M" =>
      /\ log # [ file |-> n, event |-> "failed inserting records" ]
      /\ hist[n].commits >= 1 => Stored(n) = ExpectedStored("M")

\* No files row of a store is for the reserved name, and every targets and
\* randoms row belongs to a files row.
NoLatestRows(store) ==
  /\ \A r \in store.files : Lower(r.filename) # LastJson
  /\ \A i \in 1..Len(store.targets) : \E r \in store.files : r.id = store.targets[i].file_id
  /\ \A i \in 1..Len(store.randoms) : \E r \in store.files : r.id = store.randoms[i].file_id

\* The step is the Ingestor's skip of last.json.
SkippedLatestStep ==
  /\ log' # log
  /\ log'.event = "skipping last.json"

Resolved(href) == IF HasScheme(href) \/ HasNetloc(href) THEN href ELSE UrlJoin(BaseUrl, href)

\* The anchors of a listing whose resolved path ends in .json and whose
\* filename is not last.json.
JsonResources(links) ==
  { Resolved(links[i]) : i \in { j \in 1..Len(links) :
       /\ EndsWith(Lower(Resolved(links[j])), DotJson)
       /\ Lower(BaseName(Resolved(links[j]))) # LastJson } }

\* C14: check_for_json selects exactly the listed resources whose resolved
\* path ends in .json and whose filename is not last.json.
C14_SelectsJsonResources ==
  call.fn = "check_for_json" => Range(call.out) = JsonResources(call.arg)

\* C15: with any number of Fetcher replicas, no step changes processed, and no
\* step replaces or rewrites a file that is in pending under a final name.
C15_DownloadTouchesNothingPresent ==
  [][ /\ processed' = processed
      /\ \A n \in Names :
            Exists(pending, n) =>
              /\ pending'[n] = pending[n]
              /\ ino'[pending[n]] = ino[pending[n]] ]_vars

\* File n is in processed and the committed store has its files row and every
\* record of it.
Drained(n) ==
  /\ Exists(processed, n)
  /\ HasFileRow(db, n)
  /\ Range(ExpectedStored(remote[n]).hosts) \subseteq Range(Stored(n).hosts)
  /\ Range(ExpectedStored(remote[n]).randoms) \subseteq Range(Stored(n).randoms)

\* The Ingestor is at a file whose upsert would take the store's clock and id
\* sequence past MaxClock: the behaviours explored end here.
ClockStopped ==
  /\ ipc = "file"
  /\ Lower(CurFile) # LastJson
  /\ clock.seq >= MaxClock

\* C16: with the store available and the Ingestor's loop running, a
\* well-formed file that is in pending is eventually in processed with its
\* files row and records committed (as far as the clock bound lets the
\* Ingestor run).
C16_PendingIsDrained ==
  \A n \in Names :
    (Exists(pending, n) /\ remote[n] \in { "T", "R" }) ~> (Drained(n) \/ ClockStopped)

\* C16 happens: both files the Fetcher materialised are drained and the
\* Ingestor is between scans with the clock bound not reached by a retry.
C16_Witness ==
  /\ \A n \in Names : Drained(n) /\ ~Exists(pending, n) /\ hist[n].commits = 1
  /\ ipc = "idle"
  /\ ~ClockStopped

\* C17: a file of the scan that is present in pending is never failed because
\* of what happened to a file before it: the Ingestor does not log
\* "processing failed" for it on a connection an earlier file left in a failed
\* transaction.
C17_FailureDoesNotBlockSiblings ==
  [][ ( /\ ipc = "file"
        /\ Lower(CurFile) # LastJson
        /\ Exists(pending, CurFile)
        /\ conn.state = "inerror" )
      => ~( /\ log' # log
            /\ log' = [ file |-> CurFile, event |-> "processing failed" ] ) ]_vars

\* The step ends the except branch of _download_file.
FailureHandledStep ==
  /\ fpc[1] \in { "cleanup", "unlink" }
  /\ fpc'[1] \notin { "cleanup", "unlink" }

C19_OneRowFetchedAtKept ==
  call.fn = "upsert" =>
    /\ \A r1, r2 \in call.out.files : r1.filename = r2.filename => r1 = r2
    /\ \A old \in call.arg.before.files :
         \E new \in call.out.files :
           /\ new.filename = old.filename
           /\ new.id = old.id
           /\ old.fetched_at # None => new.fetched_at = old.fetched_at
           /\ IF old.filename = call.arg.filename
                THEN /\ new.sha256 = call.arg.sha256
                     /\ new.size_bytes = call.arg.size_bytes
                     /\ new.processed_at = call.arg.now
                ELSE new = old
    /\ call.out.targets = call.arg.before.targets
    /\ call.out.randoms = call.arg.before.randoms

\* C19 happens: a filename whose row has a fetched_at is upserted again with
\* another timestamp and another digest.
C19_Witness ==
  /\ call.fn = "upsert"
  /\ HasFileRow(call.arg.before, call.arg.filename)
  /\ FileRow(call.arg.before, call.arg.filename).fetched_at = StampOne
  /\ FileRow(call.arg.before, call.arg.filename).sha256 # call.arg.sha256
  /\ call.arg.ts = StampTwo

\* The fields of a filename, as numbers, are a date and a time of day.
ValidFields(f) ==
  ValidDateTime(Num(f.y), Num(f.m), Num(f.d), Num(f.t[1]), Num(f.t[2]), Num(f.t[3]))

\* C20: for a filename that starts with the DD-MM-YYYY_HH-MM-SS token or with
\* the YYYY-MM-DD_HH-MM-SS token of the same valid date and time,
\* parse_timestamp_from_filename returns the one instant of these fields; for
\* a filename that starts with neither pattern, or whose fields are not a
\* date and a time, it returns None.
C20_BothTokensOneInstant ==
  call.fn = "parse_timestamp_from_filename" =>
    call.out = IF call.arg.layout \in { "DMY", "YMD" } /\ ValidFields(call.arg)
                 THEN TokenYMD(call.arg)
                 ELSE None

\* C20 happens: a day-first filename of a leap day was parsed to an instant.
C20_Witness ==
  /\ call.fn = "parse_timestamp_from_filename"
  /\ call.arg.layout = "DMY"
  /\ call.arg.d = << "2", "9" >>
  /\ call.arg.m = << "0", "2" >>
  /\ call.out # None

\* s has whitespace neither at its start nor at its end.
Trimmed(s) == s = << >> \/ (s[1] # " " /\ s[Len(s)] # " ")

\* s without its first a and its last b characters.
Middle(s, a, b) == [ k \in 1..(Len(s) - a - b) |-> s[a + k] ]

\* The part of s between its surrounding whitespace.
Core(s) ==
  LET cut == CHOOSE p \in (0..Len(s)) \X (0..Len(s)) :
               /\ p[1] + p[2] <= Len(s)
               /\ \A k \in 1..p[1] : s[k] = " "
               /\ \A k \in (Len(s) - p[2] + 1)..Len(s) : s[k] = " "
               /\ Trimmed(Middle(s, p[1], p[2]))
  IN  Middle(s, cut[1], cut[2])

\* s without one leading 'www.'.
WithoutPrefix(s) == IF StartsWith(s, Www) THEN [ i \in 1..(Len(s) - 4) |-> s[i + 4] ] ELSE s

\* C21: for every string, normalize_hostname returns the string between its
\* surrounding whitespace, lowercased, without one leading 'www.', and None
\* when that is empty; 'WWW.Example.com ' gives 'example.com', '' and 'www.'
\* give None.
C21_NormalizeHostname ==
  call.fn = "normalize_hostname" =>
    /\ call.out = IF WithoutPrefix(Lower(Core(call.arg))) = << >>
                    THEN None
                    ELSE WithoutPrefix(Lower(Core(call.arg)))
    /\ call.arg = << "W", "W", "W", ".", "E", "x", "a", "m", "p", "l", "e", ".", "c", "o", "m", " " >>
         => call.out = << "e", "x", "a", "m", "p", "l", "e", ".", "c", "o", "m" >>
    /\ call.arg \in { << >>, Www } => call.out = None

\* C21 happens: a hostname with surrounding whitespace and a prefix in upper
\* case was normalized to a name.
C21_Witness ==
  /\ call.fn = "normalize_hostname"
  /\ call.arg = << " ", "W", "w", "W", ".", "a" >> \/ call.arg = << "W", "w", "W", ".", "a" >>
  /\ call.out = << "a" >>

\* What a boolean column holds for an entry e and the source key k: null when
\* the key is absent or null, else true for the values Python takes as true
\* and false for those it takes as false.
StoredFlag(e, k) ==
  IF k \notin DOMAIN e THEN None
  ELSE IF e[k] = None THEN None
  ELSE IF e[k] \in { True, IntOne, << "n", "o" >> } THEN True
  ELSE False

\* C22: the randoms row of an entry holds in digit, upper and lower, and the
\* targets row holds in use_ssl, null when the field is absent or null in the
\* source, and the truth value of the field when it is present.
C22_AbsentBooleanIsNull ==
  call.fn = "insert_records" =>
    /\ Len(call.out.randoms) = 1
    /\ Len(call.out.targets) = 1
    /\ \A k \in { "digit", "upper", "lower" } :
         call.out.randoms[1][k] = StoredFlag(call.arg.randoms[1], k)
    /\ call.out.targets[1].use_ssl = StoredFlag(call.arg.targets[1], "use_ssl")

\* C22 happens: an entry with one boolean field absent, one null and one false
\* was stored, and so was a target without use_ssl.
C22_Witness ==
  /\ call.fn = "insert_records"
  /\ "digit" \notin DOMAIN call.arg.randoms[1]
  /\ "upper" \in DOMAIN call.arg.randoms[1] /\ call.arg.randoms[1].upper = None
  /\ "lower" \in DOMAIN call.arg.randoms[1] /\ call.arg.randoms[1].lower = False
  /\ "use_ssl" \notin DOMAIN call.arg.targets[1]
  /\ call.out.randoms[1].digit = None
  /\ call.out.randoms[1].lower = False
  /\ call.out.targets[1].use_ssl = None

\* The rows the committed store holds under a files row are those extracted
\* from the content the row's sha256 and size_bytes are of.
RowsMatchDigest(r) ==
  \E d \in Docs \ { "X" } :
    /\ r.sha256 = Sha256(Body(d))
    /\ r.size_bytes = Len(Body(d))
    /\ RowsOf(db.targets, r.id) = TargetRecords(r.id, ListOf(DocData(d), "targets"))
    /\ RowsOf(db.randoms, r.id) = RandomRecords(r.id, ListOf(DocData(d), "randoms"))

\* C23: the skip path is not taken for a file whose content differs from the
\* one its committed files row was computed from, and in every committed state
\* the sha256 and size_bytes of a files row that has targets are those of the
\* content its targets and randoms rows were extracted from.
C23_ChangedContentNotSkipped ==
  /\ (ipc = "skip_commit" /\ HasFileRow(db, CurFile) /\ Exists(pending, CurFile)) =>
        /\ FileRow(db, CurFile).sha256 = Sha256(ino[pending[CurFile]])
        /\ FileRow(db, CurFile).size_bytes = Len(ino[pending[CurFile]])
  /\ \A r \in db.files : HasTargets(db, r.id) => RowsMatchDigest(r)

\* The file the Ingestor is at is in pending with the content its committed
\* files row was computed from, and the store has a targets row for it.
SkipCase ==
  /\ iq # << >>
  /\ Lower(CurFile) # LastJson
  /\ Exists(pending, CurFile)
  /\ HasFileRow(db, CurFile)
  /\ FileRow(db, CurFile).sha256 = Sha256(ino[pending[CurFile]])
  /\ FileRow(db, CurFile).size_bytes = Len(ino[pending[CurFile]])
  /\ HasTargets(db, FileRow(db, CurFile).id)

\* The files rows of a store, without those of filename n.
OtherFiles(store, n) == { r \in store.files : r.filename # n }

\* C24: for a pending file whose hash and size equal those stored and which
\* has a targets row, process_file takes the skip path with no insert in the
\* transaction; its commit leaves targets and randoms as they were and changes
\* no files row but the file's own, of which it refreshes sha256, size_bytes
\* and processed_at only; and the file is then moved from pending to processed.
C24_SkipPathOnlyRefreshes ==
  /\ [][ (SkipCase /\ ipc = "file" /\ ipc' # ipc) =>
           /\ ipc' = "skip_commit"
           /\ work'.targets = db.targets
           /\ work'.randoms = db.randoms ]_vars
  /\ [][ (SkipCase /\ ipc = "skip_commit" /\ ipc' # ipc) =>
           /\ ipc' = "move"
           /\ db'.targets = db.targets
           /\ db'.randoms = db.randoms
           /\ OtherFiles(db', CurFile) = OtherFiles(db, CurFile)
           /\ HasFileRow(db', CurFile)
           /\ FileRow(db', CurFile).id = FileRow(db, CurFile).id
           /\ FileRow(db', CurFile).fetched_at = FileRow(db, CurFile).fetched_at
           /\ FileRow(db', CurFile).sha256 = FileRow(db, CurFile).sha256
           /\ FileRow(db', CurFile).size_bytes = FileRow(db, CurFile).size_bytes ]_vars
  /\ [][ (SkipCase /\ ipc = "move" /\ log.event = "already ingested, skipping" /\ ipc' # ipc) =>
           /\ ~Exists(pending', CurFile)
           /\ Exists(processed', CurFile)
           /\ db' = db ]_vars

\* C25: when the Ingestor is about to call process_file on a file of a scan,
\* the connection has no transaction open and no uncommitted write on it; a
\* commit made for a file publishes no files row of another file, and a
\* rollback made for a file discards no files row of another file.
C25_CallEndsTransaction ==
  /\ []((ipc = "file" /\ Lower(CurFile) # LastJson) => (conn.state = "idle" /\ work = db))
  /\ [][ (ipc \in { "commit", "skip_commit" } /\ db' # db) =>
           OtherFiles(db', CurFile) = OtherFiles(db, CurFile) ]_vars
  /\ [][ InsertFailedStep =>
           OtherFiles(work', CurFile) = OtherFiles(work, CurFile) ]_vars

\* Fetcher w removes the temp file of its resource in its except branch.
CleanupUnlinkStep(w) ==
  /\ fpc[w] = "unlink"
  /\ Exists(pending, CurTmp(w))
  /\ ~Exists(pending', CurTmp(w))

\* C26: the failure cleanup of one Fetcher never removes the temp file that
\* another Fetcher has open and is writing.
C26_CleanupRemovesOwnTempOnly ==
  [][ \A w \in Fetchers :
        CleanupUnlinkStep(w) =>
          \A v \in Fetchers \ { w } :
            ~(fpc[v] = "write" /\ ffd[v] = pending[CurTmp(w)]) ]_vars

\* The step is a failed fetch of the directory listing by the Fetcher: nothing
\* else fails while it is between cycles.
ListingFailedStep ==
  /\ fpc[1] = "idle"
  /\ faults' # faults

\* C27: when fetching the listing fails, check_for_json returns with no
\* download attempted (the Fetcher is between cycles again, with no candidate
\* and no open file), and pending, processed, the download directory and the
\* content of every file are as they were.
C27_ListingFailureChangesNothing ==
  [][ ListingFailedStep =>
        /\ fpc'[1] = "idle"
        /\ fq'[1] = << >>
        /\ ffd'[1] = 0
        /\ pending' = pending
        /\ processed' = processed
        /\ downloads' = downloads
        /\ ino' = ino ]_vars

\* C27 happens: the one failure so far was that of a listing, with a file in
\* pending: the staging area is as it was at the start.
C27_Witness ==
  /\ faults = 1
  /\ fpc[1] = "idle"
  /\ Exists(pending, LastJson)
  /\ \A n \in Names : ~Exists(pending, n) /\ ~Exists(pending, TmpName(n))

\* The download of resource n has failed and its except branch is running.
DownloadFailed(n) == fpc[1] \in { "cleanup", "unlink" } /\ CurName(1) = n

\* The Fetcher is requesting resource n.
Attempting(n) == fpc[1] = "get" /\ CurName(1) = n

Ascending(q) == \A i \in 1..(Len(q) - 1) : StrLess(q[i], q[i + 1])

\* C29: the urls a Fetcher cycle has still to attempt and the files an
\* Ingestor scan has still to process are in strictly ascending order (so
\* without repetition), and within a cycle or scan they are taken one by one
\* from the front: nothing is attempted or processed before an entry of the
\* same cycle or scan that sorts before it.
C29_AscendingOrder ==
  /\ [](Ascending(fq[1]) /\ Ascending(iq))
  /\ [][ fq'[1] # fq[1] =>
           (fpc[1] = "idle" \/ fq'[1] = << >> \/ fq'[1] = Tail(fq[1])) ]_vars
  /\ [][ iq' # iq =>
           (ipc = "idle" \/ iq' = << >> \/ iq' = Tail(iq)) ]_vars

\* C29 happens: a cycle with two candidates starts while a scan of two files
\* is under way.
C29_Witness ==
  /\ fpc[1] = "start"
  /\ Len(fq[1]) = 2
  /\ ipc = "file"
  /\ Len(iq) = 2

\* An error is raised while the Ingestor is at the top of its loop and the
\* Fetcher step, if it is one, is not inside a download: the connection cannot
\* be opened, or the listing cannot be fetched.
LoopErrorStep ==
  /\ ipc = "idle"
  /\ faults' # faults
  /\ fpc' = fpc

\* C30: an error at the top of a loop leaves both loops where they were, with
\* nothing changed but the count of errors; every cycle of either loop comes to
\* its end (as far as the clock bound lets the Ingestor run), whatever errors
\* were raised in it, and from between two cycles another cycle always starts.
C30_LoopsNeverEnd ==
  /\ [][ LoopErrorStep => UNCHANGED << fsVars, fVars, iVars >> ]_vars
  /\ [](ipc \in { "idle", "file", "skip_commit", "load", "targets", "commit", "move", "exit" })
  /\ []<>(ipc = "idle" \/ ClockStopped)
  /\ []<>(ipc # "idle")
  /\ []<>(fpc[1] = "idle")
  /\ []<>(fpc[1] = "start")

\* C30 happens: after the error, raised at the top of a loop (the staging
\* area and the store are as at the start), both loops have started a cycle.
C30_Witness ==
  /\ faults = MaxFaults
  /\ ipc = "file"
  /\ fpc[1] = "start"
  /\ fq[1] = ListedCandidates
  /\ Exists(pending, LastJson)
  /\ \A n \in Names : ~Exists(pending, n) /\ ~Exists(pending, TmpName(n))
  /\ db = EmptyStore
  /\ clock.seq = 0

====
